---- MODULE Spec2Model ----
(***************************************************************************)
(* State-machine model of beamfpy.py: the digest-keyed lazy evaluation of  *)
(* the cross spectral matrix (PowerSpectra / EigSpectra) and of the four   *)
(* beamformers (BeamformerBase, -Capon, -Eig, -Music), and their on-disk   *)
(* cache.                                                                   *)
(*                                                                          *)
(* Traits contract used by the module (Property(depends_on=[..],           *)
(* cached=True) on a HasPrivateTraits class): the value of property x is   *)
(* kept in the private attribute _x, which starts as None and is reset to  *)
(* None whenever one of the depends_on traits changes; the reset is        *)
(* propagated to the properties that depend on x.  The getter _get_x runs  *)
(* when x is read.  An assignment of the value a trait already holds is no *)
(* change.  A property with depends_on = [] is never reset.                *)
(*                                                                          *)
(* Python's None is the empty tuple, a value x that may be None is <<x>>.  *)
(* Arrays are represented by the inputs they were computed from ("of") and *)
(* by the digest under which they were computed ("dig").  md5 is modelled  *)
(* as collision free.                                                       *)
(***************************************************************************)
EXTENDS Integers, Sequences, FiniteSets, TLC

VARIABLES
    td,       \* the TimeSamples object t1
    cal,      \* the Calib object
    ps,       \* the PowerSpectra / EigSpectra object
    gr,       \* the RectGrid object
    mg,       \* the MicGeom object
    bf,       \* the beamformer object
    files,    \* cache_dir: the set of completely written cache files
    pending,  \* dumps of the running handler not yet completed, in order
    isopen,   \* the first pending dump has opened its file for writing
    pc,       \* position of the process: "idle", in the kernel call, in the block loop
    loc,      \* locals of calc_result while the kernel runs
    ret,      \* what the last operation was and what it returned
    seen,     \* the derived attributes read so far
    ran,      \* cache names whose expensive computation was started
    reran,    \* cache names computed although their file was in the cache
    raced,    \* an input was assigned while a kernel was running
    nassign,  \* number of assignments made so far
    peek      \* what a second process last saw when it looked up a file

vars == <<td, cal, ps, gr, mg, bf, files, pending, isopen, pc, loc, ret,
          seen, ran, reran, raced, nassign, peek>>

\* at most MaxAssign assignments are made after construction
MaxAssign == 1

None == <<>>
Some(x) == <<x>>
the(o) == o[1]

-----------------------------------------------------------------------------
(* Files on disk and input values.                                          *)

\* two recordings with the same base name in different directories, and the
\* default name '' that names no file
TdA == [dir |-> "a", base |-> "x.h5"]
TdB == [dir |-> "b", base |-> "x.h5"]
TdNo == [dir |-> "", base |-> ""]
TdNames == {TdA, TdB, TdNo}

\* path.isfile for the .h5 names
isfile_h5(p) == p \in {TdA, TdB}

\* content of the .h5 files: the time_data array and its attributes
h5file(p) ==
    IF p = TdA
    THEN [data |-> "A", sample_freq |-> 51200, numsamples |-> 512, numchannels |-> 2]
    ELSE [data |-> "B", sample_freq |-> 51200, numsamples |-> 512, numchannels |-> 2]

\* path.basename
basename(p) == p.base

\* the factor attributes of the 'pos' elements of the calibration file
CalFactors == <<2, 3>>

\* microphone geometry files: the 'pos' elements of each
MicFiles == {"array_2.xml", "array_3.xml"}
xmlpos(f) == IF f = "array_2.xml" THEN <<1, 2>> ELSE <<1, 2, 3>>

BlockSizes == {128, 256}
Windows == {"Retangular", "Hanning"}
Overlaps == {"None", "50%"}
IndLows == {0, 7}
IndHighs == {-1, 15}
Increments == {10, 5}
Speeds == {34300, 34604}
Kinds == {"Base", "Capon", "Eig", "Music"}
Ns == {-3, -1, 1, 5}

\* the mapped value overlap_ of the overlap trait
overlap_(o) ==
    CASE o = "None" -> 1
      [] o = "50%" -> 2
      [] o = "75%" -> 4
      [] OTHER -> 8

-----------------------------------------------------------------------------
(* Strings and digests.                                                     *)

\* str() of an int, of a float given in hundredths, of a bool
str(x) == ToString(x)
strbool(b) == IF b THEN "True" ELSE "False"

\* str() of a one-dimensional array
RECURSIVE strarray(_)
strarray(a) == IF a = <<>> THEN "" ELSE " " \o ToString(Head(a)) \o strarray(Tail(a))

\* string.join(s): the words of s separated by one blank
RECURSIVE join(_)
join(s) ==
    IF s = <<>> THEN ""
    ELSE IF Len(s) = 1 THEN s[1]
    ELSE s[1] \o " " \o join(Tail(s))

\* md5.new(x).hexdigest()
md5(x) == "md5(" \o x \o ")"

\* length of a[lo:hi] for an array of n elements
slicelen(n, lo, hi) ==
    LET l == IF lo < 0 THEN (IF n + lo < 0 THEN 0 ELSE n + lo) ELSE (IF lo > n THEN n ELSE lo)
        h == IF hi < 0 THEN (IF n + hi < 0 THEN 0 ELSE n + hi) ELSE (IF hi > n THEN n ELSE hi)
    IN IF h > l THEN h - l ELSE 0

-----------------------------------------------------------------------------
(* The objects in one record, threaded through the calls of a handler.      *)
(*   q   : the dumps the handler has issued, in order                       *)
(*   run : cache names whose computation the handler started                *)
(*   err : an exception is propagating                                      *)
(*   v   : the value returned by the last call                              *)
(*   how : what calc_csm / calc_result did                                  *)

World ==
    [td |-> td, cal |-> cal, ps |-> ps, gr |-> gr, mg |-> mg, bf |-> bf,
     q |-> <<>>, run |-> {}, err |-> FALSE, v |-> None, how |-> "none"]

\* a lookup that never finds the file
isfile_never(name) == FALSE

\* path.isfile(cache_name), and load(cache_name)
isfile(name) == \E f \in files : f.name = name
load(name) == (CHOOSE f \in files : f.name = name).val

-----------------------------------------------------------------------------
(* TimeSamples                                                              *)

\* TimeSamples.load_data
load_data(t) ==
    IF ~isfile_h5(t.name)
    THEN [t EXCEPT !.data = Some("empty"), !.numsamples = 0,
                   !.numchannels = 0, !.sample_freq = 0]
    ELSE [t EXCEPT !.data = Some(h5file(t.name).data),
                   !.sample_freq = h5file(t.name).sample_freq,
                   !.numsamples = h5file(t.name).numsamples,
                   !.numchannels = h5file(t.name).numchannels]

\* shape(t.data) after load_data: array([],'d') has one axis of length 0,
\* the node time_data of a file has the two axes of the file
data_shape(t) ==
    IF the(t.data) = "empty" THEN <<0>>
    ELSE <<h5file(t.name).numsamples, h5file(t.name).numchannels>>

\* TimeSamples._get_digest; _digest is reset by every change of name, the
\* only value it is computed from, so it is not kept as state
TimeSamples_get_digest(t) == md5(join(<<basename(t.name)>>))

-----------------------------------------------------------------------------
(* Calib                                                                    *)

\* Calib.import_data (from_file names an existing file)
import_data(w) ==
    [w EXCEPT !.cal.data = Some(CalFactors), !.cal.num_mics = Len(CalFactors)]

\* Calib._get_data
Calib_get_data(w) ==
    LET return(w1) == [w1 EXCEPT !.v = the(w1.cal.data)]
    IN return(IF w.cal.data = None THEN import_data(w) ELSE w)

\* Calib._get_digest
Calib_get_digest(w) ==
    LET return(w1) == [w1 EXCEPT !.v = md5(join(<<"[" \o strarray(w1.v) \o "]">>))]
    IN return(Calib_get_data(w))

-----------------------------------------------------------------------------
(* MicGeom                                                                  *)

\* path.isfile(self.from_file) of a MicGeom
isfile_xml(f) == f \in MicFiles

\* MicGeom.import_mpos; without the file it assigns to self.mpos, a Property
\* with a getter only, which is read only: the assignment raises TraitError
\* before num_mics is set
import_mpos(w) ==
    IF ~isfile_xml(w.mg.from_file)
    THEN [w EXCEPT !.err = TRUE]
    ELSE [w EXCEPT !.mg.mpos = Some(xmlpos(w.mg.from_file)),
                   !.mg.num_mics = Len(xmlpos(w.mg.from_file))]

\* MicGeom._get_mpos
MicGeom_get_mpos(w) ==
    LET return(w1) == IF w1.err THEN w1 ELSE [w1 EXCEPT !.v = the(w1.mg.mpos)]
    IN return(IF w.mg.mpos = None THEN import_mpos(w) ELSE w)

\* MicGeom._get_digest
MicGeom_get_digest(w) ==
    LET return(w1) ==
            IF w1.err THEN w1
            ELSE [w1 EXCEPT !.v = md5(join(<<"[" \o strarray(w1.v) \o "]">>))]
    IN return(MicGeom_get_mpos(w))

-----------------------------------------------------------------------------
(* RectGrid                                                                 *)

\* RectGrid._get_digest: x_min, x_max, y_min, y_max and z keep their
\* defaults, increment is given in hundredths
RectGrid_get_digest(g) ==
    md5(join(<<"-1.0", "1.0", "-1.0", "1.0", "1.0", str(g.increment)>>))

-----------------------------------------------------------------------------
(* PowerSpectra and EigSpectra                                              *)

\* PowerSpectra._get_num_blocks; _num_blocks is reset by every change of the
\* values it is computed from, so it is not kept as state.  The division is
\* Python 2's integer division.
PowerSpectra_get_num_blocks(w) ==
    IF w.ps.time_data = None THEN None
    ELSE Some((overlap_(w.ps.overlap) * w.td.numsamples) \div w.ps.block_size
              - overlap_(w.ps.overlap) + 1)

\* PowerSpectra.fftfreq: the number of frequency lines it returns
fftfreq(w) ==
    IF w.td.sample_freq > 0
    THEN slicelen(w.ps.block_size \div 2 + 1, w.ps.ind_low, w.ps.ind_high)
    ELSE 0

\* PowerSpectra._get_digest
PowerSpectra_get_digest(w) ==
    IF w.ps.digest # None THEN [w EXCEPT !.v = the(w.ps.digest)]
    ELSE LET s(w1) == IF w.ps.time_data = None THEN <<"">>
                      ELSE <<TimeSamples_get_digest(w.td), w1.v,
                             str(w.ps.block_size), w.ps.window, w.ps.overlap,
                             str(w.ps.ind_low), str(w.ps.ind_high)>>
             return(w1, d) == [w1 EXCEPT !.ps.digest = Some(d), !.v = d]
             hash(w1) == return(w1, md5(join(s(w1))))
         IN hash(IF w.ps.calib # None THEN Calib_get_digest(w)
                 ELSE [w EXCEPT !.v = ""])

\* zeros(0)
zeros0 == [nfreq |-> 0, dig |-> None, of |-> None]

\* calibration factors taken without the test of the channel counts
csm_calib_unchecked(w) ==
    IF w.ps.calib # None THEN Calib_get_data(w) ELSE [w EXCEPT !.v = None]

\* the calibration factors calc_csm multiplies with: None stands for 1.0
csm_calib(w) ==
    IF w.ps.calib # None /\ w.cal.num_mics = w.td.numchannels
    THEN Calib_get_data(w)
    ELSE [w EXCEPT !.v = None]

\* the matrix computed by the block loop of calc_csm
csm_value(w, digest, calib) ==
    [nfreq |-> fftfreq(w), dig |-> Some(digest),
     of |-> Some([data |-> the(w.td.data), nch |-> w.td.numchannels,
                  ns |-> w.td.numsamples, bs |-> w.ps.block_size,
                  win |-> w.ps.window, ov |-> w.ps.overlap,
                  il |-> w.ps.ind_low, ih |-> w.ps.ind_high,
                  calib |-> calib])]

\* a dump under one file name for every digest
csm_store_one_name(w, name, val) ==
    [w EXCEPT !.ps.csm = Some(val),
              !.q = Append(@, [name |-> "f_.cache", val |-> val]),
              !.run = @ \cup {name}, !.how = "calc"]

\* self._csm.dump(cache_name) at the end of PowerSpectra.calc_csm
csm_store(w, name, val) ==
    [w EXCEPT !.ps.csm = Some(val), !.q = Append(@, [name |-> name, val |-> val]),
              !.run = @ \cup {name}, !.how = "calc"]

\* PowerSpectra.calc_csm
PowerSpectra_calc_csm(w) ==
    IF PowerSpectra_get_num_blocks(w) = Some(0)
    THEN [w EXCEPT !.ps.csm = Some(zeros0), !.how = "zero"]
    ELSE LET compute(w2, cache_name, digest) ==
                 csm_store([w2 EXCEPT !.v = None], cache_name,
                           csm_value(w2, digest, w2.v))
             lookup(w1, cache_name) ==
                 IF isfile(cache_name)
                 THEN [w1 EXCEPT !.ps.csm = Some(load(cache_name)), !.how = "load"]
                 ELSE IF w1.ps.time_data = None
                 THEN [w1 EXCEPT !.err = TRUE]      \* t.data with t None
                 ELSE compute(csm_calib(w1), cache_name, w1.v)
             name(w1) == lookup(w1, "f_" \o w1.v \o ".cache")
         IN name(PowerSpectra_get_digest(w))

\* cPickle.dump((self._eva,self._eve),f,-1) at the end of EigSpectra.calc_csm
eig_store(w, name, val) ==
    [w EXCEPT !.ps.eva = Some(val), !.q = Append(@, [name |-> name, val |-> val]),
              !.run = @ \cup {name}]

\* the test of shape(self._csm)[0] left out
no_lines_never(csm) == FALSE

\* shape(self._csm)[0]==0
no_lines(csm) == the(csm).nfreq = 0

\* EigSpectra.calc_csm: _eva and _eve are set together and stand as one value
EigSpectra_calc_csm(w) ==
    LET lookup(w2, cache_name) ==
            IF isfile(cache_name)
            THEN [w2 EXCEPT !.ps.eva = Some(load(cache_name))]
            ELSE eig_store(w2, cache_name,
                           [nfreq |-> the(w2.ps.csm).nfreq, dig |-> Some(w2.v),
                            of |-> the(w2.ps.csm).of])
        name(w2) == lookup(w2, "e_" \o w2.v \o ".cache")
        eig(w1) ==
            IF w1.err THEN w1
            ELSE IF no_lines(w1.ps.csm)
            THEN [w1 EXCEPT !.ps.eva = w1.ps.csm]
            ELSE name(PowerSpectra_get_digest(w1))
    IN eig(PowerSpectra_calc_csm(w))

\* self.calc_csm() as bound by the class of the object
calc_csm(w) ==
    IF w.ps.cls = "EigSpectra" THEN EigSpectra_calc_csm(w)
    ELSE PowerSpectra_calc_csm(w)

\* PowerSpectra._get_csm_flag
PowerSpectra_get_csm_flag(w) ==
    LET w1 == IF w.ps.csm_flag = None
              THEN [w EXCEPT !.ps.csm_flag = Some(1), !.ps.csm = None]
              ELSE w
    IN [w1 EXCEPT !.v = w1.ps.csm_flag]

\* PowerSpectra._get_csm
PowerSpectra_get_csm(w) ==
    LET return(w1) ==
            IF w1.err THEN w1
            ELSE [w1 EXCEPT !.ps.csm_flag = Some(2), !.v = w1.ps.csm]
    IN IF w.ps.csm_flag = Some(1)
       THEN return(calc_csm(w))
       ELSE [w EXCEPT !.v = w.ps.csm]

\* EigSpectra._get_eva (and _get_eve)
EigSpectra_get_eva(w) ==
    LET return(w1) ==
            IF w1.err THEN w1
            ELSE [w1 EXCEPT !.ps.csm_flag = Some(2), !.v = w1.ps.eva]
    IN IF w.ps.csm_flag = Some(1)
       THEN return(calc_csm(w))
       ELSE [w EXCEPT !.v = w.ps.eva]

-----------------------------------------------------------------------------
(* The beamformers                                                          *)

IsEig(k) == k \in {"Eig", "Music"}

\* the values BeamformerBase._get_digest / BeamformerEig._get_digest join
digest_words(w, md, gd, fd) ==
    IF IsEig(w.bf.kind)
    THEN <<md, gd, fd, str(w.bf.c), str(w.bf.n), strbool(w.bf.r_diag)>>
    ELSE <<md, gd, fd, str(w.bf.c), strbool(w.bf.r_diag)>>

\* BeamformerBase._get_digest and BeamformerEig._get_digest
BeamformerBase_get_digest(w) ==
    IF w.bf.digest # None THEN [w EXCEPT !.v = the(w.bf.digest)]
    ELSE IF w.bf.mpos = None
    THEN [w EXCEPT !.bf.digest = Some(md5(join(<<"">>))), !.v = md5(join(<<"">>))]
    ELSE LET return(w2, d) == [w2 EXCEPT !.bf.digest = Some(d), !.v = d]
             hash(w2, md) ==
                 return(w2, md5(join(digest_words(w, md, RectGrid_get_digest(w.gr),
                                                  w2.v))))
             rest(w1) ==
                 IF w1.err THEN w1               \* no AttributeError: not caught
                 ELSE IF w.bf.grid = None \/ w.bf.freq_data = None
                 THEN return(w1, md5(join(<<"">>)))
                 ELSE hash(PowerSpectra_get_digest(w1), w1.v)
         IN rest(MicGeom_get_digest(w))

\* BeamformerBase._get_result_flag and BeamformerEig._get_result_flag; the
\* latter returns self._csm_flag, an attribute no beamformer ever sets
BeamformerBase_get_result_flag(w) ==
    LET w1 == IF w.bf.result_flag = None
              THEN [w EXCEPT !.bf.result_flag = Some(1), !.bf.result = None]
              ELSE w
    IN [w1 EXCEPT !.v = IF IsEig(w.bf.kind) THEN None ELSE w1.bf.result_flag]

\* one prefix for every class
prefix_b(k) == "b_"

\* the first letters of the cache file of each class
prefix(k) ==
    CASE k = "Base" -> "b_"
      [] k = "Capon" -> "w_"
      [] k = "Eig" -> "v_"
      [] OTHER -> "m_"

\* self.freq_data.csm, or self.freq_data.eva and .eve, as the kernel call of
\* each class reads them; the extension module raises on None
spectral_input(w) ==
    LET pass(w1) ==
            IF w1.err THEN w1
            ELSE IF w1.v = None THEN [w1 EXCEPT !.err = TRUE]
            ELSE [w1 EXCEPT !.v = the(w1.v)]
    IN pass(IF IsEig(w.bf.kind) THEN EigSpectra_get_eva(w)
            ELSE PowerSpectra_get_csm(w))

\* the map the kernel of each class computes from what it reads
result_value(w, digest, spec) ==
    [dig |-> digest,
     of |-> [kind |-> w.bf.kind, spec |-> spec, nfreq |-> fftfreq(w),
             nch |-> w.td.numchannels, mpos |-> the(w.mg.mpos),
             inc |-> w.gr.increment, c |-> w.bf.c,
             rd |-> IF w.bf.kind \in {"Base", "Eig"} THEN Some(w.bf.r_diag) ELSE None,
             n |-> CASE w.bf.kind = "Eig" ->
                          Some(IF w.bf.n < 0 THEN w.td.numchannels - 1 ELSE w.bf.n)
                     [] w.bf.kind = "Music" -> Some(w.mg.num_mics - w.bf.n)
                     [] OTHER -> None]]

\* calc_result of each class up to the kernel call: the checks, the digest,
\* the cache lookup and the reading of the kernel's arguments
calc_result_begin(w) ==
    IF w.bf.freq_data = None \/ w.bf.grid = None \/ w.bf.mpos = None
    THEN [w EXCEPT !.how = "unset"]
    ELSE IF w.ps.time_data = None
    THEN [w EXCEPT !.err = TRUE]              \* None.numchannels
    ELSE IF w.td.numchannels # w.mg.num_mics
    THEN [w EXCEPT !.how = "mismatch"]
    ELSE LET call(w3, digest, cache_name, spec) ==
                 [w3 EXCEPT !.how = "kernel",
                            !.run = @ \cup {cache_name},
                            !.v = [digest |-> digest,
                                   cache_name |-> cache_name,
                                   val |-> result_value(w3, digest, spec)]]
             prepare(w2, digest, cache_name) ==
                 IF w2.err THEN w2
                 ELSE call(MicGeom_get_mpos(w2), digest, cache_name, w2.v)
             lookup(w1, cache_name) ==
                 IF isfile(cache_name)
                 THEN [w1 EXCEPT !.bf.result = Some(load(cache_name)), !.how = "load"]
                 ELSE prepare(spectral_input(w1), w1.v, cache_name)
             name(w1) == IF w1.err THEN w1
                         ELSE lookup(w1, prefix(w.bf.kind) \o w1.v \o ".cache")
         IN name(BeamformerBase_get_digest(w))

\* a comparison that never sees a change
always_the_same(digest, now) == TRUE

\* the comparison "if digest==self.digest" after the kernel call
still_the_same(digest, now) == digest = now

\* calc_result of each class after the kernel call
calc_result_end(w, l) ==
    LET compare(w1) ==
            IF w1.err THEN w1
            ELSE IF still_the_same(l.digest, w1.v)
            THEN [w1 EXCEPT !.bf.result = Some(l.val),
                            !.q = Append(@, [name |-> l.cache_name, val |-> l.val]),
                            !.how = "calc"]
            ELSE [w1 EXCEPT !.how = "discard"]
    IN compare(BeamformerBase_get_digest(w))

\* a getter that leaves the flag as it is
set_valid_skipped(w) == w

\* the assignment self._result_flag=2 that ends _get_result
set_valid(w) == [w EXCEPT !.bf.result_flag = Some(2)]

-----------------------------------------------------------------------------
(* Change notification: the resets of the cached properties.                *)

\* BeamformerBase.digest changed: result_flag depends on it
reset_result(w) == [w EXCEPT !.bf.digest = None, !.bf.result_flag = None]

\* a trait in the depends_on of PowerSpectra.csm_flag and .digest changed;
\* the digest of the beamformer depends on freq_data.digest
reset_csm(w) ==
    LET w1 == [w EXCEPT !.ps.csm_flag = None, !.ps.digest = None]
    IN IF w.bf.freq_data # None THEN reset_result(w1) ELSE w1

\* does BeamformerBase.digest / BeamformerEig.digest depend on the trait
digest_depends_on(k, trait) ==
    IF IsEig(k) THEN trait \in {"c", "n"} ELSE trait \in {"c", "r_diag"}

\* does PowerSpectra.csm_flag / .digest depend on the trait
csm_depends_on(trait) == trait \in {"block_size", "window", "overlap"}

-----------------------------------------------------------------------------
(* Initial state: the objects as constructed by                             *)
(*   t1 = TimeSamples(name=...); cal = Calib(from_file=...)                 *)
(*   m = MicGeom(from_file=...); g = RectGrid(increment=...)                *)
(*   f1 = PowerSpectra or EigSpectra(time_data=t1, block_size=128,          *)
(*                                   window='Hanning', overlap='50%')       *)
(*   b = Beamformer...(freq_data=f1, grid=g, mpos=m)                        *)

NoLoc == [digest |-> "", cache_name |-> "", val |-> None, first |-> FALSE]
NoRet == [op |-> "init", arg |-> "", val |-> None, exc |-> FALSE,
          how |-> "none", first |-> FALSE]

Init ==
    /\ td = load_data([name |-> TdA, sample_freq |-> 1, numchannels |-> 1,
                       numsamples |-> 1, data |-> None])
    /\ cal = [from_file |-> "calib.xml", num_mics |-> 0, data |-> None]
    /\ gr = [increment |-> 10]
    /\ mg = [from_file |-> "array_2.xml", num_mics |-> 0, mpos |-> None]
    /\ \E k \in Kinds :
         /\ ps = [cls |-> IF IsEig(k) THEN "EigSpectra" ELSE "PowerSpectra",
                  time_data |-> Some("t1"), calib |-> None, block_size |-> 128,
                  ind_low |-> 0, ind_high |-> -1, window |-> "Hanning",
                  overlap |-> "50%", csm_flag |-> None, csm |-> None,
                  digest |-> None, eva |-> None]
         /\ bf = [kind |-> k, freq_data |-> Some("f1"), grid |-> Some("g"),
                  mpos |-> Some("m"), c |-> 34300, r_diag |-> TRUE,
                  n |-> IF k = "Music" THEN 1 ELSE -1,
                  result_flag |-> None, result |-> None, digest |-> None]
    /\ files = {}
    /\ pending = <<>>
    /\ isopen = FALSE
    /\ pc = "idle"
    /\ loc = NoLoc
    /\ ret = NoRet
    /\ seen = {}
    /\ ran = {}
    /\ reran = {}
    /\ raced = FALSE
    /\ nassign = 0
    /\ peek = "none"

-----------------------------------------------------------------------------
(* Actions                                                                  *)

\* the objects and the bookkeeping after a handler that ended in world w
Commit(w) ==
    /\ td' = w.td /\ cal' = w.cal /\ ps' = w.ps
    /\ gr' = w.gr /\ mg' = w.mg /\ bf' = w.bf
    /\ pending' = pending \o w.q
    /\ ran' = ran \cup w.run
    /\ reran' = reran \cup {n \in w.run : \E f \in files : f.name = n}

\* a handler runs when the process is idle and its last dump is complete
Idle == pc = "idle" /\ pending = <<>>

\* an assignment, or the evaluation of a flag by a listener, comes between
\* two handlers, while the kernel of calc_result runs or while the block loop
\* of calc_csm runs
Between == Idle \/ pc \in {"kernel", "faverage"}

\* an assignment of a changed value to the trait, after its listeners ran
Assigned(w, trait) ==
    /\ nassign < MaxAssign
    /\ Between
    /\ Commit(w)
    /\ ret' = [op |-> "set", arg |-> trait, val |-> None, exc |-> FALSE,
               how |-> "none", first |-> FALSE]
    /\ nassign' = nassign + 1
    /\ raced' = (raced \/ pc = "kernel")
    /\ UNCHANGED <<files, isopen, pc, loc, seen, peek>>

\* t1.name = v: _name_changed loads the data; digest depends on name
Set_name(v) ==
    /\ v # td.name
    /\ LET w == [World EXCEPT !.td = load_data([td EXCEPT !.name = v])]
       IN Assigned(IF ps.time_data # None THEN reset_csm(w) ELSE w, "name")

\* f1.time_data = v
Set_time_data(v) ==
    /\ v # ps.time_data
    /\ Assigned(reset_csm([World EXCEPT !.ps.time_data = v]), "time_data")

\* f1.calib = v
Set_calib(v) ==
    /\ v # ps.calib
    /\ Assigned(reset_csm([World EXCEPT !.ps.calib = v]), "calib")

\* f1.block_size = v
Set_block_size(v) ==
    /\ v # ps.block_size
    /\ LET w == [World EXCEPT !.ps.block_size = v]
       IN Assigned(IF csm_depends_on("block_size") THEN reset_csm(w) ELSE w,
                   "block_size")

\* f1.window = v
Set_window(v) ==
    /\ v # ps.window
    /\ LET w == [World EXCEPT !.ps.window = v]
       IN Assigned(IF csm_depends_on("window") THEN reset_csm(w) ELSE w, "window")

\* f1.overlap = v
Set_overlap(v) ==
    /\ v # ps.overlap
    /\ LET w == [World EXCEPT !.ps.overlap = v]
       IN Assigned(IF csm_depends_on("overlap") THEN reset_csm(w) ELSE w, "overlap")

\* f1.ind_low = v
Set_ind_low(v) ==
    /\ v # ps.ind_low
    /\ LET w == [World EXCEPT !.ps.ind_low = v]
       IN Assigned(IF csm_depends_on("ind_low") THEN reset_csm(w) ELSE w, "ind_low")

\* f1.ind_high = v
Set_ind_high(v) ==
    /\ v # ps.ind_high
    /\ LET w == [World EXCEPT !.ps.ind_high = v]
       IN Assigned(IF csm_depends_on("ind_high") THEN reset_csm(w) ELSE w, "ind_high")

\* m.from_file = v: mpos depends on from_file, digest on mpos
Set_from_file(v) ==
    /\ v # mg.from_file
    /\ LET w == [World EXCEPT !.mg.from_file = v, !.mg.mpos = None]
       IN Assigned(IF bf.mpos # None THEN reset_result(w) ELSE w, "from_file")

\* g.increment = v: digest depends on increment
Set_increment(v) ==
    /\ v # gr.increment
    /\ LET w == [World EXCEPT !.gr.increment = v]
       IN Assigned(IF bf.grid # None THEN reset_result(w) ELSE w, "increment")

\* b.c = v
Set_c(v) ==
    /\ v # bf.c
    /\ LET w == [World EXCEPT !.bf.c = v]
       IN Assigned(IF digest_depends_on(bf.kind, "c") THEN reset_result(w) ELSE w, "c")

\* b.r_diag = v
Set_r_diag(v) ==
    /\ v # bf.r_diag
    /\ LET w == [World EXCEPT !.bf.r_diag = v]
       IN Assigned(IF digest_depends_on(bf.kind, "r_diag") THEN reset_result(w)
                   ELSE w, "r_diag")

\* b.n = v, for the classes that have the trait n
Set_n(v) ==
    /\ IsEig(bf.kind)
    /\ v # bf.n
    /\ LET w == [World EXCEPT !.bf.n = v]
       IN Assigned(IF digest_depends_on(bf.kind, "n") THEN reset_result(w) ELSE w, "n")

\* a read that runs its getter to the end in world w
Read(w, attr, first) ==
    /\ Commit(w)
    /\ ret' = [op |-> attr, arg |-> "", val |-> IF w.err THEN None ELSE w.v,
               exc |-> w.err, how |-> w.how, first |-> first]
    /\ UNCHANGED <<files, isopen, pc, loc, raced, nassign, peek>>

\* f1.csm_flag
Get_csm_flag ==
    /\ Between
    /\ Read(PowerSpectra_get_csm_flag(World), "csm_flag", FALSE)
    /\ UNCHANGED seen

\* f1.csm (PowerSpectra._get_csm), up to the return or, for a PowerSpectra
\* object whose calc_csm finds no cache file, up to the block loop; the
\* locals window, calib and numfreq are set before the loop
Get_csm ==
    /\ Idle
    /\ seen' = seen \cup {"csm"}
    /\ IF ps.cls = "PowerSpectra" /\ ps.csm_flag = Some(1)
          /\ PowerSpectra_calc_csm(World).how = "calc"
       THEN LET loop(w) ==
                    /\ Commit([w EXCEPT !.v = None,
                                        !.run = {"f_" \o the(w.ps.digest) \o ".cache"}])
                    /\ pc' = "faverage"
                    /\ loc' = [digest |-> the(w.ps.digest),
                               cache_name |-> "f_" \o the(w.ps.digest) \o ".cache",
                               val |-> Some([calib |-> w.v, win |-> w.ps.window,
                                             nfreq |-> fftfreq(w)]),
                               first |-> "csm" \notin seen]
                    /\ ret' = [op |-> "csm", arg |-> "", val |-> None,
                               exc |-> FALSE, how |-> "loop",
                               first |-> "csm" \notin seen]
                    /\ UNCHANGED <<files, isopen, raced, nassign, peek>>
            IN loop(csm_calib(PowerSpectra_get_digest(World)))
       ELSE Read(PowerSpectra_get_csm(World), "csm", "csm" \notin seen)

\* the matrix the block loop leaves: every block is read from the values
\* the objects hold when it is read, here the values at the end of the loop
loop_value(w, l) ==
    [csm_value(w, l.digest, the(l.val).calib)
       EXCEPT !.nfreq = the(l.val).nfreq,
              !.of = Some([the(@) EXCEPT !.win = the(l.val).win])]

\* the block loop ends: the rest of calc_csm and of _get_csm
Csm_returns ==
    /\ pc = "faverage"
    /\ pending = <<>>
    /\ IF ps.time_data = None
       THEN /\ Commit(World)                    \* self.time_data.data
            /\ ret' = [op |-> "csm", arg |-> "", val |-> None, exc |-> TRUE,
                       how |-> "none", first |-> loc.first]
       ELSE LET return(w) ==
                    /\ Commit(w)
                    /\ ret' = [op |-> "csm", arg |-> "", val |-> w.ps.csm,
                               exc |-> FALSE, how |-> "calc", first |-> loc.first]
            IN return([csm_store(World, loc.cache_name, loop_value(World, loc))
                         EXCEPT !.ps.csm_flag = Some(2)])
    /\ pc' = "idle"
    /\ loc' = NoLoc
    /\ UNCHANGED <<files, isopen, seen, raced, nassign, peek>>

\* f1.eva or f1.eve
Get_eva ==
    /\ Idle
    /\ ps.cls = "EigSpectra"
    /\ Read(EigSpectra_get_eva(World), "eva", "eva" \notin seen)
    /\ seen' = seen \cup {"eva"}

\* f1.num_blocks
Get_num_blocks ==
    /\ Idle
    /\ Read([World EXCEPT !.v = PowerSpectra_get_num_blocks(World)], "num_blocks",
            FALSE)
    /\ UNCHANGED seen

\* f1.digest
Get_freq_digest ==
    /\ Idle
    /\ Read(PowerSpectra_get_digest(World), "freq_digest", FALSE)
    /\ UNCHANGED seen

\* b.digest
Get_digest ==
    /\ Idle
    /\ Read(BeamformerBase_get_digest(World), "digest", FALSE)
    /\ UNCHANGED seen

\* b.result_flag
Get_result_flag ==
    /\ Between
    /\ Read(BeamformerBase_get_result_flag(World), "result_flag", FALSE)
    /\ UNCHANGED seen

\* b.result (BeamformerBase._get_result), up to the return or the kernel call
Get_result ==
    /\ Idle
    /\ seen' = seen \cup {"result"}
    /\ IF bf.result_flag # Some(1)
       THEN Read([World EXCEPT !.v = bf.result], "result", "result" \notin seen)
       ELSE LET after(w) ==
                    IF w.err
                    THEN Read(w, "result", "result" \notin seen)
                    ELSE IF w.how # "kernel"
                    THEN Read([set_valid(w) EXCEPT !.v = w.bf.result], "result",
                              "result" \notin seen)
                    ELSE /\ Commit(w)
                         /\ pc' = "kernel"
                         /\ loc' = [digest |-> w.v.digest,
                                    cache_name |-> w.v.cache_name,
                                    val |-> Some(w.v.val),
                                    first |-> "result" \notin seen]
                         /\ ret' = [op |-> "result", arg |-> "", val |-> None,
                                    exc |-> FALSE, how |-> "kernel",
                                    first |-> "result" \notin seen]
                         /\ UNCHANGED <<files, isopen, raced, nassign, peek>>
            IN after(calc_result_begin(World))

\* the kernel call returns: the rest of calc_result and of _get_result
Kernel_returns ==
    /\ pc = "kernel"
    /\ pending = <<>>
    /\ LET return(w) ==
               /\ Commit(w)
               /\ ret' = [op |-> "result", arg |-> "",
                          val |-> IF w.err THEN None ELSE w.bf.result,
                          exc |-> w.err, how |-> w.how, first |-> loc.first]
           valid(w) == IF w.err THEN w ELSE set_valid(w)
       IN return(valid(calc_result_end(World, [loc EXCEPT !.val = the(loc.val)])))
    /\ pc' = "idle"
    /\ loc' = NoLoc
    /\ UNCHANGED <<files, isopen, seen, raced, nassign, peek>>

\* dump: the file is opened for writing and exists, not yet complete
Dump_open ==
    /\ pending # <<>>
    /\ ~isopen
    /\ isopen' = TRUE
    /\ UNCHANGED <<td, cal, ps, gr, mg, bf, files, pending, pc, loc, ret, seen,
                   ran, reran, raced, nassign, peek>>

\* dump: the file is written and closed
Dump_close ==
    /\ pending # <<>>
    /\ isopen
    /\ files' = files \cup {Head(pending)}
    /\ pending' = Tail(pending)
    /\ isopen' = FALSE
    /\ UNCHANGED <<td, cal, ps, gr, mg, bf, pc, loc, ret, seen, ran, reran,
                   raced, nassign, peek>>

\* what path.isfile and load give a process that did not write the file
status(name) ==
    IF isfile(name) THEN "complete"
    ELSE IF pending # <<>> /\ isopen /\ Head(pending).name = name THEN "partial"
    ELSE "absent"

\* a second process looks up a cache file
Lookup(name) ==
    /\ peek' = status(name)
    /\ UNCHANGED <<td, cal, ps, gr, mg, bf, files, pending, isopen, pc, loc, ret,
                   seen, ran, reran, raced, nassign>>

Next ==
    \/ \E v \in TdNames : Set_name(v)
    \/ \E v \in {None, Some("t1")} : Set_time_data(v)
    \/ \E v \in {None, Some("cal")} : Set_calib(v)
    \/ \E v \in BlockSizes : Set_block_size(v)
    \/ \E v \in Windows : Set_window(v)
    \/ \E v \in Overlaps : Set_overlap(v)
    \/ \E v \in IndLows : Set_ind_low(v)
    \/ \E v \in IndHighs : Set_ind_high(v)
    \/ \E v \in MicFiles : Set_from_file(v)
    \/ \E v \in Increments : Set_increment(v)
    \/ \E v \in Speeds : Set_c(v)
    \/ \E v \in BOOLEAN : Set_r_diag(v)
    \/ \E v \in Ns : Set_n(v)
    \/ Get_csm_flag
    \/ Get_csm
    \/ Csm_returns
    \/ Get_num_blocks
    \/ Get_eva
    \/ Get_freq_digest
    \/ Get_digest
    \/ Get_result_flag
    \/ Get_result
    \/ Kernel_returns
    \/ Dump_open
    \/ Dump_close
    \/ \E f \in files \cup {pending[i] : i \in DOMAIN pending} : Lookup(f.name)

Spec == Init /\ [][Next]_vars

-----------------------------------------------------------------------------
(* The spectra object over the whole range of its block parameters: a       *)
(* recording of any length, every block_size and every overlap, and the     *)
(* reads of num_blocks and csm.                                             *)

\* lengths of the recording in samples
SampleCounts == {0, 32, 100, 128, 192, 512, 1000}

\* the values of the trait block_size
AllBlockSizes == {128, 256, 512, 1024, 2048, 4096}

\* the keys of the trait overlap
AllOverlaps == {"None", "50%", "75%", "87.5%"}

InitBlocks ==
    /\ \E ns \in SampleCounts :
         td = [load_data([name |-> TdA, sample_freq |-> 1, numchannels |-> 1,
                          numsamples |-> 1, data |-> None])
                 EXCEPT !.numsamples = ns]
    /\ cal = [from_file |-> "calib.xml", num_mics |-> 0, data |-> None]
    /\ gr = [increment |-> 10]
    /\ mg = [from_file |-> "array_2.xml", num_mics |-> 0, mpos |-> None]
    /\ \E bs \in AllBlockSizes, ov \in AllOverlaps :
         ps = [cls |-> "PowerSpectra", time_data |-> Some("t1"), calib |-> None,
               block_size |-> bs, ind_low |-> 0, ind_high |-> -1,
               window |-> "Hanning", overlap |-> ov, csm_flag |-> None,
               csm |-> None, digest |-> None, eva |-> None]
    /\ bf = [kind |-> "Base", freq_data |-> Some("f1"), grid |-> Some("g"),
             mpos |-> Some("m"), c |-> 34300, r_diag |-> TRUE, n |-> -1,
             result_flag |-> None, result |-> None, digest |-> None]
    /\ files = {}
    /\ pending = <<>>
    /\ isopen = FALSE
    /\ pc = "idle"
    /\ loc = NoLoc
    /\ ret = NoRet
    /\ seen = {}
    /\ ran = {}
    /\ reran = {}
    /\ raced = FALSE
    /\ nassign = 0
    /\ peek = "none"

NextBlocks ==
    \/ Get_num_blocks
    \/ Get_csm_flag
    \/ Get_csm
    \/ Csm_returns
    \/ Dump_open
    \/ Dump_close

SpecBlocks == InitBlocks /\ [][NextBlocks]_vars

-----------------------------------------------------------------------------
(* Band synthesis: the frequency axis with its values, synthetic and        *)
(* synthetic_ev, and the entries of the maps of BeamformerBase and           *)
(* BeamformerEig at one grid point.                                          *)

\* a[lo:hi]
slice(a, lo, hi) ==
    LET n == Len(a)
        l == IF lo < 0 THEN (IF n + lo < 0 THEN 0 ELSE n + lo) ELSE (IF lo > n THEN n ELSE lo)
        h == IF hi < 0 THEN (IF n + hi < 0 THEN 0 ELSE n + hi) ELSE (IF hi > n THEN n ELSE hi)
    IN IF h > l THEN SubSeq(a, l + 1, h) ELSE <<>>

\* fft.fftfreq(n, 1./sample_freq)[k] in Hz: the bins from (n-1)/2+1 on hold
\* the negative frequencies
fft_fftfreq(n, sample_freq, k) ==
    ((IF k < (n - 1) \div 2 + 1 THEN k ELSE k - n) * sample_freq) \div n

\* PowerSpectra.fftfreq: the array it returns
fftfreq_values(w) ==
    IF w.td.sample_freq > 0
    THEN slice([k \in 1..(w.ps.block_size \div 2 + 1) |->
                  fft_fftfreq(w.ps.block_size, w.td.sample_freq, k - 1)],
               w.ps.ind_low, w.ps.ind_high)
    ELSE <<>>

\* band edges are compared with the axis in units of 1/Scale Hz
Scale == 10000

\* 2.**(-0.5/num) and 2.**(0.5/num) in units of 1/Scale, for num = 1, 2, 3
band_low(num) ==
    CASE num = 1 -> 7071
      [] num = 2 -> 8409
      [] OTHER -> 8909

band_high(num) ==
    CASE num = 1 -> 14142
      [] num = 2 -> 11892
      [] OTHER -> 11225

\* searchsorted(a, key): the binary search numpy runs, on any array; key is
\* given in units of 1/Scale and the result counts from 0
RECURSIVE bisect_left(_, _, _, _)
bisect_left(a, key, imin, imax) ==
    IF imin >= imax THEN imin
    ELSE LET step(imid) ==
                 IF a[imid + 1] * Scale < key
                 THEN bisect_left(a, key, imid + 1, imax)
                 ELSE bisect_left(a, key, imin, imid)
         IN step(imin + (imax - imin) \div 2)

searchsorted(a, key) == bisect_left(a, key, 0, Len(a))

\* the steering sum h[i] the kernel (beamdiag, beamfull, beamortho_sum_diag,
\* beamortho_sum) leaves for frequency line i at the grid point: with the
\* diagonal removed a sum can be negative
steering_sum(i) == IF i % 3 = 1 THEN -(i + 1) ELSE i + 1

\* a map without the clamp
clamp_skipped(h) == [big |-> h, tiny |-> 0]

\* multiply(h,(sign(h)+1-1e-35)/2): the factor is 1.0 for h > 0 (2 - 1e-35 is
\* 2 in double precision), 0.5 for h = 0 and -5e-36 for h < 0.  A value is
\* big + tiny * 1e-36.
clamp(h) ==
    IF h > 0 THEN [big |-> h, tiny |-> 0]
    ELSE [big |-> 0, tiny |-> (-5) * h]

\* the divisor of calc_result
adiv(numchannels, r_diag) ==
    IF r_diag THEN numchannels * numchannels - numchannels
    ELSE numchannels * numchannels

\* self._result[i] at the grid point, before the division by adiv, for the
\* maps of BeamformerBase and BeamformerEig
result_line(r, i) ==
    IF r.of.rd = Some(TRUE) THEN clamp(steering_sum(i))
    ELSE [big |-> steering_sum(i), tiny |-> 0]

\* sum(self.result[lo:hi],0) at the grid point, before the division
RECURSIVE sum_lines(_, _, _)
sum_lines(r, lo, hi) ==
    IF lo >= hi THEN [big |-> 0, tiny |-> 0]
    ELSE LET add(a, b) == [big |-> a.big + b.big, tiny |-> a.tiny + b.tiny]
         IN add(result_line(r, lo), sum_lines(r, lo + 1, hi))

\* BeamformerBase._get_result run to its end within one handler
BeamformerBase_get_result(w) ==
    IF w.bf.result_flag # Some(1) THEN [w EXCEPT !.v = w.bf.result]
    ELSE LET return(w2) == [w2 EXCEPT !.v = w2.bf.result]
             valid(w2) == IF w2.err THEN w2 ELSE return(set_valid(w2))
             kernel(w1) ==
                 IF w1.err THEN w1
                 ELSE IF w1.how # "kernel" THEN return(set_valid(w1))
                 ELSE valid(calc_result_end(w1, w1.v))
         IN kernel(calc_result_begin(w))

\* what synthetic and synthetic_ev return: the indices f1 and f2 that were
\* looked up and, for a map, the value at the grid point and its divisor
band_value(freq, num, f1, f2, e, div) ==
    Some([freq |-> freq, num |-> num, f1 |-> f1, f2 |-> f2,
          big |-> e.big, tiny |-> e.tiny, adiv |-> div])

\* array([[1,],],'d') and ones((1,1),'d')
singleton(freq, num) == band_value(freq, num, 0, 0, [big |-> 1, tiny |-> 0], 1)

\* an upper index that is the lower one
band_f2_single(f, freq, num) ==
    searchsorted(f, IF num = 0 THEN freq * Scale ELSE freq * band_low(num))

\* the lower and the upper index synthetic and synthetic_ev look up; with
\* num = 0 there is one index
band_f1(f, freq, num) ==
    searchsorted(f, IF num = 0 THEN freq * Scale ELSE freq * band_low(num))

band_f2(f, freq, num) ==
    IF num = 0 THEN band_f1(f, freq, num)
    ELSE searchsorted(f, freq * band_high(num))

\* len(a) of a map
map_len(r) == r.of.nfreq

\* BeamformerBase.synthetic
synthetic(w, freq, num) ==
    IF w.bf.freq_data = None \/ w.ps.time_data = None
    THEN [w EXCEPT !.err = TRUE]                \* self.freq_data.fftfreq()
    ELSE IF Len(fftfreq_values(w)) = 0
    THEN [w EXCEPT !.v = singleton(freq, num), !.how = "fallback"]
    ELSE LET ones(w1) ==
                 [w1 EXCEPT !.err = FALSE, !.v = singleton(freq, num), !.how = "ones"]
             return(w1, r, f1, f2, e, how) ==
                 [w1 EXCEPT !.v = band_value(freq, num, f1, f2, e,
                                             adiv(r.of.nch, r.of.rd = Some(TRUE))),
                            !.how = how]
             index(w1, f1, f2) ==
                 IF w1.err \/ w1.v = None THEN ones(w1)
                 ELSE IF f1 = f2
                 THEN IF f1 >= map_len(the(w1.v)) THEN ones(w1)
                      ELSE return(w1, the(w1.v), f1, f2, result_line(the(w1.v), f1),
                                  "line")
                 ELSE return(w1, the(w1.v), f1, f2,
                             sum_lines(the(w1.v), f1,
                                       IF f2 > map_len(the(w1.v))
                                       THEN map_len(the(w1.v)) ELSE f2),
                             "sum")
         IN index(BeamformerBase_get_result(w),
                  band_f1(fftfreq_values(w), freq, num),
                  band_f2(fftfreq_values(w), freq, num))

\* EigSpectra.synthetic_ev; the eigenvalues have no values in this model
synthetic_ev(w, freq, num) ==
    IF w.ps.time_data = None
    THEN [w EXCEPT !.err = TRUE]                \* self.time_data.sample_freq
    ELSE LET return(w1, f1, f2, how) ==
                 [w1 EXCEPT !.v = band_value(freq, num, f1, f2,
                                             [big |-> 0, tiny |-> 0], 1),
                            !.how = how]
             index(w1, f1, f2) ==
                 IF w1.err THEN w1
                 ELSE IF w1.v = None THEN [w1 EXCEPT !.err = TRUE]
                 ELSE IF f1 = f2
                 THEN IF f1 >= the(w1.v).nfreq THEN [w1 EXCEPT !.err = TRUE]
                      ELSE return(w1, f1, f2, "line")
                 ELSE return(w1, f1, f2, "sum")
         IN index(EigSpectra_get_eva(w),
                  band_f1(fftfreq_values(w), freq, num),
                  band_f2(fftfreq_values(w), freq, num))

\* b.synthetic(freq, num)
Synthetic(freq, num) ==
    /\ Idle
    /\ Read(synthetic(World, freq, num), "synthetic", FALSE)
    /\ UNCHANGED seen

\* f1.synthetic_ev(freq, num), a method of EigSpectra
Synthetic_ev(freq, num) ==
    /\ Idle
    /\ ps.cls = "EigSpectra"
    /\ Read(synthetic_ev(World, freq, num), "synthetic_ev", FALSE)
    /\ UNCHANGED seen

\* the centre frequencies in Hz and the band parameters that are asked for
Freqs == {400, 520, 1000, 3000}
Nums == {0, 1, 3}

\* the pipeline of a BeamformerBase or a BeamformerEig over a recording or
\* over a name that names no file, with 64 or 6 frequency lines, and the
\* reads that end within one handler
InitSynth ==
    /\ \E p \in {TdA, TdNo} :
         td = load_data([name |-> p, sample_freq |-> 1, numchannels |-> 1,
                         numsamples |-> 1, data |-> None])
    /\ cal = [from_file |-> "calib.xml", num_mics |-> 0, data |-> None]
    /\ gr = [increment |-> 10]
    /\ mg = [from_file |-> "array_2.xml", num_mics |-> 0, mpos |-> None]
    /\ \E k \in {"Base", "Eig"}, ih \in IndHighs, rd \in BOOLEAN :
         /\ ps = [cls |-> IF IsEig(k) THEN "EigSpectra" ELSE "PowerSpectra",
                  time_data |-> Some("t1"), calib |-> None, block_size |-> 128,
                  ind_low |-> 0, ind_high |-> ih, window |-> "Hanning",
                  overlap |-> "50%", csm_flag |-> None, csm |-> None,
                  digest |-> None, eva |-> None]
         /\ bf = [kind |-> k, freq_data |-> Some("f1"), grid |-> Some("g"),
                  mpos |-> Some("m"), c |-> 34300, r_diag |-> rd, n |-> -1,
                  result_flag |-> None, result |-> None, digest |-> None]
    /\ files = {}
    /\ pending = <<>>
    /\ isopen = FALSE
    /\ pc = "idle"
    /\ loc = NoLoc
    /\ ret = NoRet
    /\ seen = {}
    /\ ran = {}
    /\ reran = {}
    /\ raced = FALSE
    /\ nassign = 0
    /\ peek = "none"

NextSynth ==
    \/ Get_csm_flag
    \/ Get_digest
    \/ Get_result_flag
    \/ Dump_open
    \/ Dump_close
    \/ \E freq \in Freqs, num \in Nums : Synthetic(freq, num)
    \/ \E freq \in Freqs, num \in Nums : Synthetic_ev(freq, num)

SpecSynth == InitSynth /\ [][NextSynth]_vars

-----------------------------------------------------------------------------
(* The spectra object with and without a calibration, over recordings whose *)
(* channel count is or is not the number of calibration factors.            *)

\* the channel counts of the recording x.h5
ChannelCounts == {2, 3}

InitCalib ==
    /\ \E nch \in ChannelCounts :
         td = [load_data([name |-> TdA, sample_freq |-> 1, numchannels |-> 1,
                          numsamples |-> 1, data |-> None])
                 EXCEPT !.numchannels = nch]
    /\ cal = [from_file |-> "calib.xml", num_mics |-> 0, data |-> None]
    /\ gr = [increment |-> 10]
    /\ mg = [from_file |-> "array_2.xml", num_mics |-> 0, mpos |-> None]
    /\ \E k \in {"Base", "Eig"}, c \in {None, Some("cal")} :
         /\ ps = [cls |-> IF IsEig(k) THEN "EigSpectra" ELSE "PowerSpectra",
                  time_data |-> Some("t1"), calib |-> c, block_size |-> 128,
                  ind_low |-> 0, ind_high |-> -1, window |-> "Hanning",
                  overlap |-> "50%", csm_flag |-> None, csm |-> None,
                  digest |-> None, eva |-> None]
         /\ bf = [kind |-> k, freq_data |-> Some("f1"), grid |-> Some("g"),
                  mpos |-> Some("m"), c |-> 34300, r_diag |-> TRUE, n |-> -1,
                  result_flag |-> None, result |-> None, digest |-> None]
    /\ files = {}
    /\ pending = <<>>
    /\ isopen = FALSE
    /\ pc = "idle"
    /\ loc = NoLoc
    /\ ret = NoRet
    /\ seen = {}
    /\ ran = {}
    /\ reran = {}
    /\ raced = FALSE
    /\ nassign = 0
    /\ peek = "none"

NextCalib ==
    \/ \E v \in {None, Some("cal")} : Set_calib(v)
    \/ Get_csm_flag
    \/ Get_csm
    \/ Csm_returns
    \/ Get_eva
    \/ Get_freq_digest
    \/ Dump_open
    \/ Dump_close

SpecCalib == InitCalib /\ [][NextCalib]_vars

-----------------------------------------------------------------------------
(* The block loop of calc_csm: where each block starts and how many samples *)
(* the slice of the time data holds.                                         *)

\* a block start that leaves the overlap out
block_pos_no_overlap(w, block) == block * w.ps.block_size

\* pos=block*self.block_size/self.overlap_
block_pos(w, block) == (block * w.ps.block_size) \div overlap_(w.ps.overlap)

\* number of rows of self.time_data.data[pos:(pos+self.block_size)]
block_rows(w, block) ==
    slicelen(w.td.numsamples, block_pos(w, block),
             block_pos(w, block) + w.ps.block_size)

\* the divisor of the last statement of calc_result: adiv in BeamformerBase
\* and BeamformerEig, numchannels*numchannels in BeamformerCapon, none in
\* BeamformerMusic
result_divisor(r) ==
    CASE r.of.kind \in {"Base", "Eig"} -> Some(adiv(r.of.nch, the(r.of.rd)))
      [] r.of.kind = "Capon" -> Some(r.of.nch * r.of.nch)
      [] OTHER -> None

-----------------------------------------------------------------------------
(* The frequency axis over the range of the traits block_size, ind_low and  *)
(* ind_high: ind_low is a Range from 0 on, ind_high is any Int.              *)

\* values of ind_low and ind_high up to and beyond the last line
AxisLows == {0, 7, 64}
AxisHighs == {-1, -70, 15, 65, 200}

InitAxis ==
    /\ td = load_data([name |-> TdA, sample_freq |-> 1, numchannels |-> 1,
                       numsamples |-> 1, data |-> None])
    /\ cal = [from_file |-> "calib.xml", num_mics |-> 0, data |-> None]
    /\ gr = [increment |-> 10]
    /\ mg = [from_file |-> "array_2.xml", num_mics |-> 0, mpos |-> None]
    /\ \E k \in {"Base", "Eig"}, bs \in BlockSizes, il \in AxisLows,
          ih \in AxisHighs :
         /\ ps = [cls |-> IF IsEig(k) THEN "EigSpectra" ELSE "PowerSpectra",
                  time_data |-> Some("t1"), calib |-> None, block_size |-> bs,
                  ind_low |-> il, ind_high |-> ih, window |-> "Hanning",
                  overlap |-> "50%", csm_flag |-> None, csm |-> None,
                  digest |-> None, eva |-> None]
         /\ bf = [kind |-> k, freq_data |-> Some("f1"), grid |-> Some("g"),
                  mpos |-> Some("m"), c |-> 34300, r_diag |-> TRUE, n |-> -1,
                  result_flag |-> None, result |-> None, digest |-> None]
    /\ files = {}
    /\ pending = <<>>
    /\ isopen = FALSE
    /\ pc = "idle"
    /\ loc = NoLoc
    /\ ret = NoRet
    /\ seen = {}
    /\ ran = {}
    /\ reran = {}
    /\ raced = FALSE
    /\ nassign = 0
    /\ peek = "none"

SpecAxis == InitAxis /\ [][NextSynth]_vars

-----------------------------------------------------------------------------
(* The microphone geometry with a from_file that may name no file: reads of *)
(* m.mpos and m.digest, and the beamformer that uses the geometry.           *)

\* names from_file takes: the geometry files and the name of no file
GeomFiles == MicFiles \cup {"nofile.xml"}

\* m.mpos
Get_mpos ==
    /\ Idle
    /\ Read(MicGeom_get_mpos(World), "mpos", FALSE)
    /\ UNCHANGED seen

\* m.digest
Get_mg_digest ==
    /\ Idle
    /\ Read(MicGeom_get_digest(World), "mg_digest", FALSE)
    /\ UNCHANGED seen

InitGeom ==
    /\ td = load_data([name |-> TdA, sample_freq |-> 1, numchannels |-> 1,
                       numsamples |-> 1, data |-> None])
    /\ cal = [from_file |-> "calib.xml", num_mics |-> 0, data |-> None]
    /\ gr = [increment |-> 10]
    /\ \E f \in GeomFiles : mg = [from_file |-> f, num_mics |-> 0, mpos |-> None]
    /\ ps = [cls |-> "PowerSpectra", time_data |-> Some("t1"), calib |-> None,
             block_size |-> 128, ind_low |-> 0, ind_high |-> -1,
             window |-> "Hanning", overlap |-> "50%", csm_flag |-> None,
             csm |-> None, digest |-> None, eva |-> None]
    /\ bf = [kind |-> "Base", freq_data |-> Some("f1"), grid |-> Some("g"),
             mpos |-> Some("m"), c |-> 34300, r_diag |-> TRUE, n |-> -1,
             result_flag |-> None, result |-> None, digest |-> None]
    /\ files = {}
    /\ pending = <<>>
    /\ isopen = FALSE
    /\ pc = "idle"
    /\ loc = NoLoc
    /\ ret = NoRet
    /\ seen = {}
    /\ ran = {}
    /\ reran = {}
    /\ raced = FALSE
    /\ nassign = 0
    /\ peek = "none"

NextGeom ==
    \/ \E v \in GeomFiles : Set_from_file(v)
    \/ Get_mpos
    \/ Get_mg_digest
    \/ Get_digest
    \/ Get_csm_flag
    \/ Get_result_flag
    \/ Get_result
    \/ Kernel_returns
    \/ Dump_open
    \/ Dump_close

SpecGeom == InitGeom /\ [][NextGeom]_vars

-----------------------------------------------------------------------------
(* Properties                                                               *)

\* C1: the expensive computation of a stage is never started for a digest
\* whose artifact is already in the cache: once the file of a digest is
\* written, every later materialization for that digest loads it.
C1_once_per_digest == reran = {}

\* a materialization that loaded a file this process computed and dumped
C1_witness ==
    /\ ret.op \in {"csm", "eva", "result"}
    /\ ret.how = "load"
    /\ ran # {}
    /\ nassign > 0

C3_first_access ==
    /\ (ret.op \in {"csm", "eva"} /\ ret.first /\ ~ret.exc /\ ps.time_data # None)
       => ret.how \in {"calc", "load", "zero"}
    /\ (ret.op = "result" /\ ret.first /\ ~ret.exc /\ pc = "idle"
        /\ bf.freq_data # None /\ bf.grid # None /\ bf.mpos # None
        /\ ps.time_data # None
        /\ td.numchannels = Len(xmlpos(mg.from_file)))
       => ret.val # None

\* C4: after an assignment to an input of the digest of the cross spectral
\* matrix the matrix is marked invalid and the digest reported is the
\* fingerprint of the new values.
C4_assignment_invalidates ==
    (ret.op = "set" /\ ret.arg \in {"name", "time_data", "calib", "block_size",
                                    "window", "overlap", "ind_low", "ind_high"})
    => /\ ps.csm_flag # Some(2)
       /\ PowerSpectra_get_digest(World).v
          = PowerSpectra_get_digest([World EXCEPT !.ps.digest = None]).v

\* C5: a read of csm, eva, eve or result returns nothing, an empty array, or
\* a value computed under the digest the stage reports now.
C5_no_stale_read ==
    /\ (ret.op \in {"csm", "eva"} /\ ~ret.exc /\ ret.val # None
        /\ the(ret.val).dig # None)
       => the(the(ret.val).dig) = PowerSpectra_get_digest(World).v
    /\ (ret.op = "result" /\ ~ret.exc /\ pc = "idle" /\ ret.val # None)
       => the(ret.val).dig = BeamformerBase_get_digest(World).v

\* C6: when calc_result finds, after the kernel, a digest other than the one
\* it started with, it leaves the result in memory and the cache as they
\* are and raises nothing.
C6_discard ==
    [][(pc = "kernel" /\ pc' = "idle"
        /\ BeamformerBase_get_digest(World).v # loc.digest)
       => (bf'.result = bf.result /\ pending' = pending /\ files' = files
           /\ ~ret'.exc)]_vars

\* a read of result that ended with the map discarded
C6_witness ==
    /\ ret.op = "result"
    /\ ret.how = "discard"
    /\ raced
    /\ pc = "idle"

\* C7: the read of result that follows a read whose map was discarded
\* computes or loads the map of the new digest, when the inputs are valid.
C7_read_after_discard ==
    [][(ret.op = "result" /\ ret.how = "discard" /\ pc = "idle"
        /\ ret'.op = "result" /\ ret' # ret
        /\ ps.time_data # None /\ td.numchannels = mg.num_mics)
       => ret'.how \in {"kernel", "load"}]_vars

\* C8: a second process that looks up a cache file sees no file or the
\* complete file.
C8_atomic_store == peek # "partial"

\* C9: a cache file of the cross spectral matrix whose name is the digest
\* of the values this spectra object holds was computed from these values.
C9_equal_digest_equal_input ==
    LET same(c, digest) ==
            \A f \in files :
               (ps.time_data # None /\ f.name = "f_" \o digest \o ".cache")
               => f.val.of = csm_value(c, digest, c.v).of
        values(w) == same(csm_calib(w), w.v)
    IN values(PowerSpectra_get_digest([World EXCEPT !.ps.digest = None]))

\* C10: the digests this pipeline reports are the digests a newly
\* constructed pipeline with the same values reports.
C10_digest_of_values ==
    /\ PowerSpectra_get_digest(World).v
       = PowerSpectra_get_digest([World EXCEPT !.ps.digest = None]).v
    /\ BeamformerBase_get_digest(World).v
       = BeamformerBase_get_digest([World EXCEPT !.ps.digest = None,
                                                 !.bf.digest = None]).v

\* C11: a read of the digest of the spectra object or of the beamformer
\* changes no input value, no count attribute, no validity flag, no result
\* in memory and no cache file.
C11_digest_read_pure ==
    [][(ret'.op \in {"digest", "freq_digest"})
       => (/\ td' = td
           /\ cal'.num_mics = cal.num_mics
           /\ mg'.num_mics = mg.num_mics
           /\ ps'.csm_flag = ps.csm_flag /\ bf'.result_flag = bf.result_flag
           /\ ps'.csm = ps.csm /\ ps'.eva = ps.eva /\ bf'.result = bf.result
           /\ files' = files /\ pending' = pending)]_vars

\* C12: no step of the process removes a cache file or changes the content
\* stored under a file name, and a dump is only made under a name for which
\* no file exists.
C12_cache_only_grows ==
    [][/\ files \subseteq files'
       /\ \A f, g \in files' : f.name = g.name => f = g
       /\ \A i \in DOMAIN pending' : ~\E f \in files : f.name = pending'[i].name]_vars

\* two matrices of the spectra object in the cache, the second one computed
\* after an assignment
C12_witness ==
    /\ Cardinality(files) >= 2
    /\ ps.cls = "PowerSpectra"
    /\ "result" \notin seen
    /\ nassign > 0
    /\ ret.op = "csm"

\* C13: every cache file is named by the prefix of the kind of its artifact
\* and the digest it was computed under, and no stage of another kind looks
\* for its artifact under that name.
C13_prefix_per_kind ==
    \A f \in files :
       IF "nfreq" \in DOMAIN f.val
       THEN /\ f.name \in {"f_" \o the(f.val.dig) \o ".cache",
                           "e_" \o the(f.val.dig) \o ".cache"}
            /\ \A k \in Kinds : f.name # prefix(k) \o the(f.val.dig) \o ".cache"
       ELSE /\ f.name = prefix(f.val.of.kind) \o f.val.dig \o ".cache"
            /\ \A k \in Kinds \ {f.val.of.kind} :
                  f.name # prefix(k) \o f.val.dig \o ".cache"
            /\ f.name \notin {"f_" \o f.val.dig \o ".cache",
                              "e_" \o f.val.dig \o ".cache"}

\* the cache holds a matrix, its eigenvalues and a map
C13_witness ==
    /\ Cardinality(files) >= 3
    /\ bf.result # None
    /\ ps.eva # None
    /\ nassign = 0

\* C14: when an input of the cross spectral matrix is assigned while the
\* block loop of calc_csm runs, the matrix of that run is not dumped and not
\* returned.
C14_csm_race ==
    [][(pc = "faverage" /\ pc' = "idle" /\ ret.op = "set"
        /\ ret.arg \in {"name", "time_data", "calib", "block_size", "window",
                        "overlap", "ind_low", "ind_high"})
       => (pending' = pending /\ (ret'.exc \/ ret'.val = None))]_vars

\* C15: a read of result whose calc_result runs while the channel count of
\* the time data differs from the number of microphones of the geometry
\* ends in the mismatch report: no kernel call, no map, no dump.
C15_mismatch_reported ==
    (/\ ret.op = "result" /\ ~ret.exc /\ ~raced
     /\ ret.how \notin {"none", "unset"}
     /\ ps.time_data # None
     /\ td.numchannels # Len(xmlpos(mg.from_file)))
    => (ret.how = "mismatch" /\ pc = "idle" /\ ret.val = None)

\* C16: after an assignment of a different r_diag to a BeamformerEig the
\* result is marked invalid and the digest reported is the digest of the new
\* values.
C16_eig_r_diag ==
    (ret.op = "set" /\ ret.arg = "r_diag" /\ bf.kind = "Eig")
    => /\ bf.result_flag # Some(2)
       /\ BeamformerBase_get_digest(World).v
          = BeamformerBase_get_digest([World EXCEPT !.bf.digest = None]).v

\* C17: num_blocks is overlap factor * floor(numsamples / block_size)
\* - overlap factor + 1.
C17_num_blocks ==
    ret.op = "num_blocks"
    => ret.val = Some(overlap_(ps.overlap) * (td.numsamples \div ps.block_size)
                      - overlap_(ps.overlap) + 1)

\* C18: a read of csm that runs calc_csm while num_blocks is zero or
\* negative returns an array without frequency lines and raises nothing.
C18_no_blocks_empty ==
    (/\ ret.op = "csm" /\ pc = "idle" /\ ret.how # "none"
     /\ the(PowerSpectra_get_num_blocks(World)) <= 0)
    => (~ret.exc /\ ret.val # None /\ the(ret.val).nfreq = 0)

\* C19: after an assignment to n of a BeamformerEig the stored n lies
\* between -1 and the number of channels - 1.
C19_eig_n_clamped ==
    (ret.op = "set" /\ ret.arg = "n" /\ bf.kind = "Eig")
    => (bf.n >= -1 /\ bf.n <= td.numchannels - 1)

\* C20: after an assignment to n of a BeamformerMusic the stored n is at
\* least 1 and, where that leaves a range, at most the number of channels - 2.
C20_music_n_clamped ==
    (ret.op = "set" /\ ret.arg = "n" /\ bf.kind = "Music")
    => (bf.n >= 1 /\ (td.numchannels >= 3 => bf.n <= td.numchannels - 2))

\* C21: no read of csm, eva, eve or result raises, whatever the objects are
\* set to: with time_data, freq_data, grid or mpos unset, with channel counts
\* that do not match, with a recording without samples.
C21_no_fatal_error == ret.op \in {"csm", "eva", "result"} => ~ret.exc

\* C22: when the frequency axis is empty, synthetic(freq, num) and
\* synthetic_ev(freq, num) return the singleton fallback value and raise
\* nothing, for every freq and num.
C22_empty_axis_fallback ==
    (/\ ret.op \in {"synthetic", "synthetic_ev"}
     /\ Len(fftfreq_values(World)) = 0)
    => (/\ ~ret.exc
        /\ ret.val # None
        /\ ret.val = singleton(the(ret.val).freq, the(ret.val).num))

\* C23: synthetic(freq, 0), for a freq within the range of the frequency
\* axis, returns the line of the map whose frequency is closest to freq.
C23_nearest_line ==
    LET abs(x) == IF x < 0 THEN -x ELSE x
        nearest(f, freq, i) ==
            \A j \in 1..Len(f) : abs(f[i + 1] - freq) <= abs(f[j] - freq)
        inside(f, freq) == f[1] <= freq /\ freq <= f[Len(f)]
    IN (/\ ret.op = "synthetic" /\ ret.how = "line"
        /\ the(ret.val).num = 0
        /\ inside(fftfreq_values(World), the(ret.val).freq))
       => nearest(fftfreq_values(World), the(ret.val).freq, the(ret.val).f1)

\* C24: synthetic(freq, num) with num >= 1, for a band that lies inside the
\* frequency axis and a map with one line per frequency, returns line f1 of
\* the map when f1 = f2 and otherwise the sum of the lines f1 .. f2-1, where
\* f1 and f2 are the numbers of frequencies below the lower and below the
\* upper band edge; it raises nothing.  synthetic_ev, where it returns, has
\* read the eigenvalues of the same lines.
C24_band_sum ==
    LET below(f, key) == Cardinality({j \in 1..Len(f) : f[j] * Scale < key})
        inside(f, freq, num) ==
            /\ Len(f) > 0
            /\ f[1] * Scale <= freq * band_low(num)
            /\ freq * band_high(num) <= f[Len(f)] * Scale
        RECURSIVE total(_, _, _, _)
        total(r, lo, hi, part) ==
            IF hi <= lo THEN 0
            ELSE total(r, lo, hi - 1, part) + result_line(r, hi - 1)[part]
        expect(r, v, f1, f2) ==
            /\ v.f1 = f1 /\ v.f2 = f2
            /\ ret.how = IF f1 = f2 THEN "line" ELSE "sum"
            /\ v.big = total(r, f1, IF f1 = f2 THEN f1 + 1 ELSE f2, "big")
            /\ v.tiny = total(r, f1, IF f1 = f2 THEN f1 + 1 ELSE f2, "tiny")
            /\ v.adiv = adiv(r.of.nch, r.of.rd = Some(TRUE))
        band(f, r, v) ==
            (/\ v.num >= 1
             /\ map_len(r) = Len(f)
             /\ inside(f, v.freq, v.num))
            => expect(r, v, below(f, v.freq * band_low(v.num)),
                      below(f, v.freq * band_high(v.num)))
        indices(f, v) ==
            (v.num >= 1 /\ inside(f, v.freq, v.num))
            => /\ v.f1 = below(f, v.freq * band_low(v.num))
               /\ v.f2 = below(f, v.freq * band_high(v.num))
               /\ ret.how = IF v.f1 = v.f2 THEN "line" ELSE "sum"
    IN /\ (ret.op = "synthetic" /\ ps.time_data # None /\ bf.freq_data # None)
          => /\ ~ret.exc
             /\ bf.result # None
                => band(fftfreq_values(World), the(bf.result), the(ret.val))
       /\ (ret.op = "synthetic_ev" /\ ~ret.exc)
          => indices(fftfreq_values(World), the(ret.val))

\* a band of two or more lines was summed
C24_witness ==
    /\ ret.op = "synthetic"
    /\ ret.how = "sum"
    /\ the(ret.val).num >= 1
    /\ the(ret.val).f2 >= the(ret.val).f1 + 2
    /\ the(ret.val).f2 < Len(fftfreq_values(World))
    /\ bf.result # None

\* C25: for a map without negative entries, synthetic(freq, num1) is at no
\* grid point smaller than synthetic(freq, num2) when 1 <= num1 < num2: the
\* wider band holds at least the energy of the narrower one.
C25_wider_band_more ==
    LET geq(a, b) == a.big > b.big \/ (a.big = b.big /\ a.tiny >= b.tiny)
        wider(w1, v2) ==
            w1.how \in {"line", "sum"} => geq(the(w1.v), v2)
    IN (/\ ret.op = "synthetic" /\ ret.how \in {"line", "sum"}
        /\ the(bf.result).of.rd = Some(TRUE))
       => \A num1 \in Nums :
             (1 <= num1 /\ num1 < the(ret.val).num)
             => wider(synthetic(World, the(ret.val).freq, num1), the(ret.val))

C27_calib_mismatch ==
    (/\ ret.op \in {"csm", "eva"} /\ pc = "idle"
     /\ ps.calib # None
     /\ Len(CalFactors) # td.numchannels)
    => /\ ~ret.exc
       /\ ret.how = "calc"
          => /\ ret.val # None
             /\ the(ret.val).of = csm_value(World, "", None).of

\* the matrix of a recording with three channels was computed with the
\* calibration of two channels set
C27_witness ==
    /\ ret.op = "csm"
    /\ ret.how = "calc"
    /\ pc = "idle"
    /\ ps.calib # None
    /\ cal.num_mics = 2
    /\ td.numchannels = 3
    /\ the(ret.val).nfreq > 0

\* C28: in every state of the TimeSamples object the data array is there and
\* its shape is (numsamples, numchannels).
C28_data_shape ==
    /\ td.data # None
    /\ data_shape(td) = <<td.numsamples, td.numchannels>>

\* C29: when a read of eva runs EigSpectra.calc_csm and the matrix has no
\* frequency line, eigenvalues and eigenvectors are the matrix itself, no
\* eigensolver run is started and no e_ cache file is written or queued;
\* the only name the step may add is the f_ name of the matrix.
C29_no_lines_no_eig ==
    [][(/\ pc = "idle" /\ ps.csm_flag = Some(1)
        /\ ret'.op = "eva" /\ ~ret'.exc
        /\ ps'.csm # None /\ the(ps'.csm).nfreq = 0)
       => LET f_name(d) == "f_" \o the(d) \o ".cache"
              f_only(n) == ps'.digest # None /\ n = f_name(ps'.digest)
          IN /\ ps'.eva = ps'.csm
             /\ \A n \in ran' \ ran : f_only(n)
             /\ Len(pending') >= Len(pending)
             /\ \A i \in 1..Len(pending') :
                   IF i <= Len(pending) THEN pending'[i] = pending[i]
                   ELSE f_only(pending'[i].name)
             /\ files' = files]_vars

\* eva was read, calc_csm ran and left a matrix without lines
C29_witness ==
    /\ ret.op = "eva" /\ ~ret.exc /\ ret.how \in {"calc", "load", "zero"}
    /\ ps.cls = "EigSpectra" /\ ps.csm_flag = Some(2)
    /\ ps.csm # None /\ the(ps.csm).nfreq = 0
    /\ ps.eva = ps.csm
    /\ \A n \in ran : n # "e_" \o the(ps.digest) \o ".cache"

\* C30: in every state in which a read of result makes calc_result compare
\* the channel counts, num_mics of the geometry is the number of positions in
\* the file from_file names, and in every state in which a read of csm makes
\* calc_csm compare them, num_mics of the calibration, as it is after the
\* digest was taken, is the number of factors in its file.
C30_num_mics_fresh ==
    LET geometry ==
            (/\ Idle /\ bf.result_flag = Some(1)
             /\ bf.freq_data # None /\ bf.grid # None /\ bf.mpos # None
             /\ ps.time_data # None)
            => mg.num_mics = Len(xmlpos(mg.from_file))
        read(w) == w.err \/ w.cal.num_mics = Len(CalFactors)
        calibration ==
            (/\ Idle /\ ps.csm_flag = Some(1)
             /\ ps.time_data # None /\ ps.calib # None
             /\ PowerSpectra_get_num_blocks(World) # Some(0)
             /\ ~isfile("f_" \o PowerSpectra_get_digest(World).v \o ".cache"))
            => read(PowerSpectra_get_digest(World))
    IN geometry /\ calibration

\* C31: while the block loop of calc_csm runs, every block b of
\* 0..num_blocks-1 starts at or after sample 0, ends at or before sample
\* numsamples, and its slice of the time data holds block_size samples.
C31_blocks_inside ==
    (pc = "faverage" /\ ps.time_data # None)
    => \A b \in 0..(the(PowerSpectra_get_num_blocks(World)) - 1) :
          /\ block_pos(World, b) >= 0
          /\ block_pos(World, b) + ps.block_size <= td.numsamples
          /\ block_rows(World, b) = ps.block_size

\* the loop runs over overlapping blocks of a recording whose length is no
\* multiple of the block size
C31_witness ==
    /\ pc = "faverage"
    /\ the(PowerSpectra_get_num_blocks(World)) >= 3
    /\ overlap_(ps.overlap) > 1
    /\ td.numsamples % ps.block_size # 0
    /\ block_pos(World, the(PowerSpectra_get_num_blocks(World)) - 1) + ps.block_size
         < td.numsamples

\* C32: whenever calc_result has divided the sum of the kernel by its
\* divisor, the divisor was not zero.
C32_divisor_nonzero ==
    (/\ pc = "idle" /\ ret.op = "result" /\ ret.how = "calc"
     /\ bf.result # None /\ result_divisor(the(bf.result)) # None)
    => the(result_divisor(the(bf.result))) # 0

\* C33: whenever synthetic or synthetic_ev was called, the frequency axis
\* fftfreq() returns is non-negative and strictly increasing.
C33_axis_sorted ==
    LET sorted(f) == \A i \in 1..Len(f) :
                        /\ f[i] >= 0
                        /\ i < Len(f) => f[i] < f[i + 1]
    IN ret.op \in {"synthetic", "synthetic_ev"} => sorted(fftfreq_values(World))

\* C34: after a read of mpos or digest of a MicGeom whose from_file names no
\* file, nothing was raised, the positions are the empty array and num_mics
\* is 0.
C34_missing_geometry ==
    (ret.op \in {"mpos", "mg_digest"} /\ ~isfile_xml(mg.from_file))
    => (~ret.exc /\ mg.mpos = Some(<<>>) /\ mg.num_mics = 0)

====
